---- MODULE Spec2Model ----
(***************************************************************************)
(* A model of the ContextMenu focus management (ContextMenu, createMenu)   *)
(* and of the usePublicRoomResults hook.                                    *)
(*                                                                         *)
(* The menu's DOM subtree is a finite ordered tree.  Element 0 is the div  *)
(* carrying the class mx_ContextualMenu; its descendants are numbered      *)
(* 1..n in document order, parent[i] is the parent of element i and        *)
(* attrs[i] holds the attributes the code reads: the role attribute, as    *)
(* the sequence of the tokens it is spelled from (<<>>: no role), and      *)
(* whether the element carries a tab-index attribute.                      *)
(*                                                                         *)
(* HTMLElement.focus() is modelled as moving the document's focus to the   *)
(* element it is called on.                                                *)
(***************************************************************************)
EXTENDS Integers, Sequences, FiniteSets

\* ------------------------------------------------------------------ bounds
\* number of elements below the menu element, focus-traversal specification
MaxNodes == 4
\* number of elements below the menu element, lifecycle specifications
MaxMenuNodes == 2
\* number of invocations of createMenu's onFinished that are followed
MaxCalls == 2
\* number of searches whose arguments are recorded
MaxSearches == 3

\* --------------------------------------------------------------- the DOM
VARIABLES parent, attrs

MenuElem == 0
Null == -1
\* elements of the document outside the menu: what had focus before the menu
Opener == Null - 1
Elsewhere == Null - 2
OutsideElems == {Opener, Elsewhere}

Nodes == DOMAIN parent

Min(S) == CHOOSE x \in S : \A y \in S : x <= y
Max(S) == CHOOSE x \in S : \A y \in S : x >= y

Children(n) == {m \in Nodes : parent[m] = n}
firstElementChild(n) == IF Children(n) = {} THEN Null ELSE Min(Children(n))
lastElementChild(n) == IF Children(n) = {} THEN Null ELSE Max(Children(n))
nextElementSibling(n) ==
    LET later == {m \in Children(parent[n]) : m > n}
    IN IF later = {} THEN Null ELSE Min(later)
previousElementSibling(n) ==
    LET earlier == {m \in Children(parent[n]) : m < n}
    IN IF earlier = {} THEN Null ELSE Max(earlier)
parentElement(n) == parent[n]
\* element.classList.contains("mx_ContextualMenu")
IsContextualMenu(n) == n = MenuElem
getRole(n) == attrs[n].role

\* the roles and attributes elements are given
NodeKinds ==
    { [role |-> <<"menuitem">>, tabIndexAttr |-> FALSE],
      [role |-> <<"menuitem", "radio">>, tabIndexAttr |-> FALSE],
      [role |-> <<"menuitem", "radiobutton">>, tabIndexAttr |-> FALSE],
      [role |-> <<"group">>, tabIndexAttr |-> FALSE],
      [role |-> <<>>, tabIndexAttr |-> TRUE] }

\* the kinds that differ in what the arrow keys read, the role
NavKinds == {k \in NodeKinds : ~k.tabIndexAttr}

RECURSIVE Ancestors(_, _)
Ancestors(p, n) == IF n = MenuElem THEN {} ELSE {p[n]} \cup Ancestors(p, p[n])

\* the ordered trees of n elements below the menu element, each once:
\* elements numbered in document order
Trees(n) ==
    { p \in [1..n -> 0..(n - 1)] :
        \A i \in 1..n : /\ p[i] < i
                        /\ i > 1 => p[i] \in ({i - 1} \cup Ancestors(p, i - 1)) }

\* ------------------------------------------------- ARIA_MENU_ITEM_ROLES
ARIA_MENU_ITEM_ROLES ==
    { <<"menuitem">>, <<"menuitem", "checkbox">>, <<"menuitem", "radio">> }

\* the attribute selector [role^="menuitem"]
MatchesRolePrefix(n) == Len(getRole(n)) >= 1 /\ getRole(n)[1] = "menuitem"

\* mutant: the loop stops at whatever the selector [role^="menuitem"] matches
IsMenuItemRole_ByPrefix(n) == MatchesRolePrefix(n)

\* ARIA_MENU_ITEM_ROLES.has(element.getAttribute("role"))
IsMenuItemRole(n) == getRole(n) \in ARIA_MENU_ITEM_ROLES
\* the attribute selector [tab-index]
MatchesTabIndex(n) == attrs[n].tabIndexAttr

\* the descendants of n in document order
RECURSIVE Descendants(_)
RECURSIVE DescendantsFrom(_)
DescendantsFrom(c) ==
    IF c = Null THEN <<>>
    ELSE <<c>> \o Descendants(c) \o DescendantsFrom(nextElementSibling(c))
Descendants(n) == DescendantsFrom(firstElementChild(n))

querySelectorAllRole(n) == SelectSeq(Descendants(n), MatchesRolePrefix)
querySelectorAllTabIndex(n) == SelectSeq(Descendants(n), MatchesTabIndex)
\* mutant: the first descendant whose role is one of ARIA_MENU_ITEM_ROLES
querySelectorRole_ExactRole(n) ==
    IF SelectSeq(Descendants(n), IsMenuItemRole) = <<>> THEN Null
    ELSE Head(SelectSeq(Descendants(n), IsMenuItemRole))

querySelectorRole(n) ==
    IF querySelectorAllRole(n) = <<>> THEN Null ELSE Head(querySelectorAllRole(n))
querySelectorTabIndex(n) ==
    IF querySelectorAllTabIndex(n) = <<>> THEN Null ELSE Head(querySelectorAllTabIndex(n))

\* ------------------------------------------------------------ ContextMenu
VARIABLES managed, phase, focused, initialFocus, contextMenuElem, ev,
          activeAtConstruction

\* the outcome of a loop that never ends
Diverges == Null - 3

\* Key.*
Keys == {"Tab", "Escape", "ArrowUp", "ArrowDown", "Home", "End", "Enter"}

\* the do-while loop of _onMoveFocus.  The loop is deterministic in
\* (element, descending); once it has run more iterations than there are
\* such pairs it has repeated one and never ends.
RECURSIVE MoveFocusLoop(_, _, _, _)
\* the loop body after child and sibling are read
MoveFocusBody(element, descending, up, fuel, child, sibling) ==
    LET moved == IF descending
                 THEN IF child # Null THEN child
                      ELSE IF sibling # Null THEN sibling
                      ELSE parentElement(element)
                 ELSE IF sibling # Null THEN sibling
                      ELSE parentElement(element)
        desc == IF descending
                THEN child # Null \/ sibling # Null
                ELSE sibling # Null
    IN IF moved # Null /\ IsContextualMenu(moved)
       THEN \* we hit the top
            MoveFocusLoop(IF up THEN lastElementChild(moved)
                          ELSE firstElementChild(moved), TRUE, up, fuel)
       ELSE MoveFocusLoop(moved, desc, up, fuel)

\* the loop condition, then the next iteration
MoveFocusLoop(element, descending, up, fuel) ==
    IF element = Null \/ IsMenuItemRole(element) THEN element
    ELSE IF fuel = 0 THEN Diverges
    ELSE MoveFocusBody(element, descending, up, fuel - 1,
                       IF up THEN lastElementChild(element)
                       ELSE firstElementChild(element),
                       IF up THEN previousElementSibling(element)
                       ELSE nextElementSibling(element))

\* _onMoveFocus(element, up): the element focus() is called on, Null when
\* there is none, Diverges when the loop does not end
onMoveFocus(element, up) ==
    MoveFocusBody(element, FALSE, up, 2 * (Cardinality(Nodes) + 1),
                  IF up THEN lastElementChild(element)
                  ELSE firstElementChild(element),
                  IF up THEN previousElementSibling(element)
                  ELSE nextElementSibling(element))

\* _onMoveFocusHomeEnd(element, up): a NodeList is never falsy, so the
\* [tab-index] query is never made
onMoveFocusHomeEnd(element, up) ==
    LET results == querySelectorAllRole(element)
    IN IF Len(results) > 0
       THEN IF up THEN results[1] ELSE results[Len(results)]
       ELSE Null

\* mutant: an unmanaged menu closes on Tab as a managed one does
onKeyDownUnmanaged_TabCloses(key) ==
    [finished |-> IF key \in {"Tab", "Escape"} THEN 1 ELSE 0,
     focusTo |-> Null,
     stopped |-> key \in {"Tab", "Escape"},
     prevented |-> key \in {"Tab", "Escape"}]

\* _onKeyDown(ev), if (!this.props.managed): how often onFinished is called,
\* the element focus() is called on (Null: none), and what happens to the
\* event
onKeyDownUnmanaged(key) ==
    [finished |-> IF key = "Escape" THEN 1 ELSE 0,
     focusTo |-> Null,
     stopped |-> key = "Escape",
     prevented |-> key = "Escape"]

\* _onKeyDown(ev), the switch of a managed menu
onKeyDownManaged(key, target) ==
    LET handled == key \in {"Tab", "Escape", "ArrowUp", "ArrowDown", "Home", "End"}
    IN [finished |-> IF key \in {"Tab", "Escape"} THEN 1 ELSE 0,
        focusTo |-> CASE key = "ArrowUp" -> onMoveFocus(target, TRUE)
                      [] key = "ArrowDown" -> onMoveFocus(target, FALSE)
                      [] key = "Home" -> onMoveFocusHomeEnd(contextMenuElem, TRUE)
                      [] key = "End" -> onMoveFocusHomeEnd(contextMenuElem, FALSE)
                      [] OTHER -> Null,
        stopped |-> handled,
        prevented |-> handled]

\* _onKeyDown(ev)
onKeyDown(key, target) ==
    IF ~managed THEN onKeyDownUnmanaged(key) ELSE onKeyDownManaged(key, target)

\* collectContextMenuRect(element): the element focus() is called on (Null:
\* none) and whether setState({contextMenuElem: element}) is called
collectContextMenuRect(element) ==
    IF element = Null
    THEN [focusTo |-> Null, setState |-> FALSE]
    ELSE LET byRole == querySelectorRole(element)
             first == IF byRole = Null THEN querySelectorTabIndex(element)
                      ELSE byRole
         IN [focusTo |-> first, setState |-> TRUE]

\* mutant: focus is left where it is
componentWillUnmount_LeavesFocus == focused

\* componentWillUnmount: the element focus() is called on
componentWillUnmount == initialFocus

NoKey == "none"
Event(type, key, target) ==
    [type |-> type, key |-> key, target |-> target, finished |-> 0,
     stopped |-> FALSE, prevented |-> FALSE,
     before |-> focused, elemBefore |-> contextMenuElem]

domVars == <<parent, attrs>>
menuVars == <<managed, phase, focused, initialFocus, contextMenuElem, ev,
              activeAtConstruction>>

\* the state the constructor leaves: nothing attached, the element that had
\* focus remembered
Constructed(active) ==
    /\ phase = "constructed"
    /\ focused = active
    /\ initialFocus = active
    /\ activeAtConstruction = active
    /\ contextMenuElem = Null
    /\ ev = [type |-> "none", key |-> NoKey, target |-> Null, finished |-> 0,
             stopped |-> FALSE, prevented |-> FALSE,
             before |-> active, elemBefore |-> Null]

\* React attaches the menu element: the ref callback runs with it
Attach ==
    /\ phase = "constructed"
    /\ \E r \in {collectContextMenuRect(MenuElem)} :
          /\ focused' = IF r.focusTo # Null THEN r.focusTo ELSE focused
          /\ contextMenuElem' = IF r.setState THEN MenuElem ELSE contextMenuElem
    /\ phase' = "mounted"
    /\ ev' = Event("attach", NoKey, MenuElem)
    /\ UNCHANGED <<managed, initialFocus, activeAtConstruction>>

\* focus moves for a reason other than a key the menu handles: a click, a
\* Tab the menu does not consume, a focus() call of other code
FocusMove(e) ==
    /\ phase = "mounted"
    /\ e # focused
    /\ focused' = e
    /\ ev' = [Event("focus", NoKey, e) EXCEPT !.before = e]
    /\ UNCHANGED <<managed, phase, initialFocus, contextMenuElem,
                   activeAtConstruction>>

\* a key is pressed on the focused element, inside the menu's wrapper
KeyDown(key) ==
    /\ phase = "mounted"
    /\ focused \in Nodes
    /\ \E r \in {onKeyDown(key, focused)} :
          /\ phase' = IF r.focusTo = Diverges THEN "hung" ELSE phase
          /\ focused' = IF r.focusTo \in {Null, Diverges} THEN focused
                        ELSE r.focusTo
          /\ ev' = [Event("keydown", key, focused) EXCEPT
                      !.finished = r.finished,
                      !.stopped = r.focusTo # Diverges /\ r.stopped,
                      !.prevented = r.focusTo # Diverges /\ r.prevented]
    /\ UNCHANGED <<managed, initialFocus, contextMenuElem, activeAtConstruction>>

\* React unmounts the component
Unmount ==
    /\ phase = "mounted"
    /\ focused' = componentWillUnmount
    /\ phase' = "unmounting"
    /\ ev' = Event("unmount", NoKey, Null)
    /\ UNCHANGED <<managed, initialFocus, contextMenuElem, activeAtConstruction>>

\* React detaches the menu element: the ref callback runs with null
Detach ==
    /\ phase = "unmounting"
    /\ \E r \in {collectContextMenuRect(Null)} :
          /\ focused' = IF r.focusTo # Null THEN r.focusTo ELSE focused
          /\ contextMenuElem' = IF r.setState THEN Null ELSE contextMenuElem
    /\ phase' = "unmounted"
    /\ ev' = Event("detach", NoKey, Null)
    /\ UNCHANGED <<managed, initialFocus, activeAtConstruction>>

\* -------------------------------------------------------------- createMenu
VARIABLES props, calls, trace

\* the props createMenu may be given: none, some without onFinished, some
\* with it
PropsGiven ==
    { [present |-> FALSE, onFinished |-> FALSE],
      [present |-> TRUE, onFinished |-> FALSE],
      [present |-> TRUE, onFinished |-> TRUE] }

\* the argument lists onFinished is invoked with
ArgLists == { <<>>, <<"a">>, <<"a", "b">> }

\* mutant: the caller is told before the menu is unmounted
createMenuOnFinished_CallerFirst(args) ==
    (IF props.present /\ props.onFinished
     THEN <<[op |-> "props.onFinished", args |-> args]>>
     ELSE <<>>)
    \o <<[op |-> "unmountComponentAtNode", args |-> <<>>]>>

\* createMenu's onFinished(...args): the calls it makes, in order
createMenuOnFinished(args) ==
    <<[op |-> "unmountComponentAtNode", args |-> <<>>]>>
    \o (IF props.present /\ props.onFinished
        THEN <<[op |-> "props.onFinished", args |-> args]>>
        ELSE <<>>)

\* the calls of steps made one after the other, each recorded with whether
\* the menu is mounted in the container when it is made
RECURSIVE RunSteps(_, _, _)
RunSteps(steps, isMounted, done) ==
    IF steps = <<>> THEN [mounted |-> isMounted, trace |-> done]
    ELSE LET step == Head(steps)
         IN RunSteps(Tail(steps),
                     IF step.op = "unmountComponentAtNode" THEN FALSE ELSE isMounted,
                     Append(done, [op |-> step.op, args |-> step.args,
                                   mounted |-> isMounted]))

createVars == <<props, calls, trace>>

\* onFinished(...args) runs: unmountComponentAtNode runs componentWillUnmount
\* and detaches the ref of a mounted menu
InvokeOnFinished(args, focusNow) ==
    /\ phase # "constructed"
    /\ Len(calls) < MaxCalls
    /\ calls' = Append(calls, args)
    /\ \E r \in {RunSteps(createMenuOnFinished(args), phase = "mounted", <<>>)} :
          /\ trace' = trace \o r.trace
          /\ phase' = IF r.mounted THEN phase ELSE "unmounted"
          /\ focused' = IF phase = "mounted" /\ ~r.mounted
                        THEN componentWillUnmount ELSE focusNow
    /\ UNCHANGED <<props, managed, initialFocus, contextMenuElem,
                   activeAtConstruction>>

\* the caller invokes the close handle createMenu returned
Close(args) ==
    /\ InvokeOnFinished(args, focused)
    /\ ev' = Event("close", NoKey, Null)

\* the body element invokes the onFinished it was given
BodyFinished(args) ==
    /\ InvokeOnFinished(args, focused)
    /\ ev' = Event("body", NoKey, Null)

\* a key is pressed in the menu createMenu rendered: its props.onFinished is
\* createMenu's onFinished
CreatedKeyDown(key) ==
    /\ phase = "mounted"
    /\ focused \in Nodes
    /\ \E r \in {onKeyDown(key, focused)} :
          /\ IF r.finished > 0
             THEN InvokeOnFinished(<<>>, focused)
             ELSE /\ phase' = IF r.focusTo = Diverges THEN "hung" ELSE phase
                  /\ focused' = IF r.focusTo \in {Null, Diverges} THEN focused
                                ELSE r.focusTo
                  /\ UNCHANGED <<props, calls, trace, managed, initialFocus,
                                 contextMenuElem, activeAtConstruction>>
          /\ ev' = [Event("keydown", key, focused) EXCEPT
                      !.finished = r.finished,
                      !.stopped = r.focusTo # Diverges /\ r.stopped,
                      !.prevented = r.focusTo # Diverges /\ r.prevented]

\* ---------------------------------------------------- usePublicRoomResults
VARIABLES enabled, query, limitArg, ready, search, deps, searches

DefaultLimit == 20
Undefined == Null
\* the limits the hook is called with
LimitArgs == {Undefined, DefaultLimit, DefaultLimit + 30}
Queries == {"", "a", "b"}
\* the identities of the search callback usePublicRoomDirectory returns
SearchFns == {"search1", "search2"}

\* limit = 20
Limit(l) == IF l = Undefined THEN DefaultLimit ELSE l

\* mutant: query is missing from the dependency array
EffectDeps_WithoutQuery(e, l, q, r, s) == <<e, Limit(l), r, s>>

\* the dependency array of the effect
EffectDeps(e, l, q, r, s) == <<e, Limit(l), q, r, s>>

\* if (enabled && ready)
EffectCondition(e, r) == e /\ r

\* the effect's body: the searches made
Effect(e, l, q, r) ==
    IF EffectCondition(e, r)
    THEN <<[limit |-> Limit(l), query |-> q, enabled |-> e, ready |-> r]>>
    ELSE <<>>

hookVars == <<enabled, query, limitArg, ready, search, deps, searches>>

\* the component renders with these arguments and this state of the
\* directory hook; React then runs the effect if a dependency changed
Render(e, l, q, r, s) ==
    /\ Len(searches) < MaxSearches
    /\ enabled' = e
    /\ limitArg' = l
    /\ query' = q
    /\ ready' = r
    /\ search' = s
    /\ deps' = EffectDeps(e, l, q, r, s)
    /\ searches' = IF EffectDeps(e, l, q, r, s) # deps
                   THEN searches \o Effect(e, l, q, r)
                   ELSE searches

\* --------------------------------------------------------- specifications
vars == <<domVars, menuVars, createVars, hookVars>>

\* the parts a specification leaves alone
NoCreate == props = [present |-> FALSE, onFinished |-> FALSE] /\ calls = <<>> /\ trace = <<>>
NoHook ==
    /\ enabled = FALSE /\ query = "" /\ limitArg = Undefined /\ ready = FALSE
    /\ search = "search1" /\ deps = EffectDeps(FALSE, Undefined, "", FALSE, "search1")
    /\ searches = <<>>
NoMenu ==
    /\ parent = <<MenuElem>> /\ attrs = <<[role |-> <<"menuitem">>, tabIndexAttr |-> FALSE]>>
    /\ managed = TRUE
    /\ Constructed(Opener)

\* arrow-key navigation in a managed menu, over every tree of MaxNodes
\* elements
InitNav ==
    /\ parent \in Trees(MaxNodes)
    /\ attrs \in [1..MaxNodes -> NavKinds]
    /\ managed = TRUE
    /\ Constructed(Opener)
    /\ NoCreate /\ NoHook

NextNav ==
    \/ Attach /\ UNCHANGED <<domVars, createVars, hookVars>>
    \/ \E e \in Nodes : FocusMove(e) /\ UNCHANGED <<domVars, createVars, hookVars>>
    \/ \E key \in {"ArrowUp", "ArrowDown"} :
          KeyDown(key) /\ UNCHANGED <<domVars, createVars, hookVars>>

SpecNav == InitNav /\ [][NextNav]_vars

\* the life of a ContextMenu, managed or not, over every tree of up to
\* MaxMenuNodes elements
InitMenu ==
    /\ \E n \in 1..MaxMenuNodes :
          /\ parent \in Trees(n)
          /\ attrs \in [1..n -> NodeKinds]
    /\ managed \in BOOLEAN
    /\ \E active \in OutsideElems : Constructed(active)
    /\ NoCreate /\ NoHook

NextMenu ==
    \/ Attach /\ UNCHANGED <<domVars, createVars, hookVars>>
    \/ \E e \in Nodes \cup OutsideElems :
          FocusMove(e) /\ UNCHANGED <<domVars, createVars, hookVars>>
    \/ \E key \in Keys : KeyDown(key) /\ UNCHANGED <<domVars, createVars, hookVars>>
    \/ Unmount /\ UNCHANGED <<domVars, createVars, hookVars>>
    \/ Detach /\ UNCHANGED <<domVars, createVars, hookVars>>

Spec == InitMenu /\ [][NextMenu]_vars

\* a menu made by createMenu: createMenu has constructed the
\* LegacyContextMenu, and ReactDOM.render attaches it before createMenu
\* returns the handle
InitCreate ==
    /\ \E n \in 1..MaxMenuNodes :
          /\ parent \in Trees(n)
          /\ attrs \in [1..n -> NodeKinds]
    /\ managed \in BOOLEAN
    /\ props \in PropsGiven
    /\ calls = <<>>
    /\ trace = <<>>
    /\ Constructed(Opener)
    /\ NoHook

NextCreate ==
    \/ Attach /\ UNCHANGED <<domVars, createVars, hookVars>>
    \/ \E args \in ArgLists : Close(args) /\ UNCHANGED <<domVars, hookVars>>
    \/ \E args \in ArgLists : BodyFinished(args) /\ UNCHANGED <<domVars, hookVars>>
    \/ \E key \in Keys : CreatedKeyDown(key) /\ UNCHANGED <<domVars, hookVars>>

SpecCreate == InitCreate /\ [][NextCreate]_vars

\* the hook, mounted: the first render has run its effect
InitHook ==
    /\ enabled \in BOOLEAN
    /\ limitArg \in LimitArgs
    /\ query \in Queries
    /\ ready \in BOOLEAN
    /\ search \in SearchFns
    /\ deps = EffectDeps(enabled, limitArg, query, ready, search)
    /\ searches = Effect(enabled, limitArg, query, ready)
    /\ NoMenu /\ NoCreate

NextHook ==
    \E e \in BOOLEAN, l \in LimitArgs, q \in Queries, r \in BOOLEAN, s \in SearchFns :
        Render(e, l, q, r, s) /\ UNCHANGED <<domVars, menuVars, createVars>>

SpecHook == InitHook /\ [][NextHook]_vars

\* ------------------------------------------------------------------ claims

\* the menu's subtree in document (pre-order) order
DocumentOrder == Descendants(MenuElem)
\* the elements whose role is exactly menuitem, menuitemcheckbox or
\* menuitemradio
MenuItems ==
    { n \in Nodes : attrs[n].role \in { <<"menuitem">>, <<"menuitem", "checkbox">>,
                                        <<"menuitem", "radio">> } }
\* in the sequence order: the first menu item after e, the first menu item
\* of all when none follows e
NextMenuItemIn(order, e) ==
    LET at == CHOOSE i \in 1..Len(order) : order[i] = e
        items == { i \in 1..Len(order) : order[i] \in MenuItems }
        later == { i \in items : i > at }
    IN order[IF later = {} THEN Min(items) ELSE Min(later)]
\* in the sequence order: the last menu item before e, the last menu item
\* of all when none precedes e
PreviousMenuItemIn(order, e) ==
    LET at == CHOOSE i \in 1..Len(order) : order[i] = e
        items == { i \in 1..Len(order) : order[i] \in MenuItems }
        earlier == { i \in items : i < at }
    IN order[IF earlier = {} THEN Max(items) ELSE Max(earlier)]
NextMenuItem(e) == NextMenuItemIn(DocumentOrder, e)
PreviousMenuItem(e) == PreviousMenuItemIn(DocumentOrder, e)

ArrowPressed == ev.type = "keydown" /\ ev.key \in {"ArrowUp", "ArrowDown"}
ArrowMovedAsClaimed ==
    /\ phase = "mounted"
    /\ ev.key = "ArrowDown" => focused = NextMenuItem(ev.target)
    /\ ev.key = "ArrowUp" => focused = PreviousMenuItem(ev.target)

\* no menu item lies inside another menu item
NoItemInsideItem == \A m \in MenuItems : Ancestors(parent, m) \cap MenuItems = {}
\* e neither contains a menu item nor lies inside one
ClearOfItems(e) ==
    /\ Ancestors(parent, e) \cap MenuItems = {}
    /\ \A m \in MenuItems : e \notin Ancestors(parent, m)

\* C1 as stated: in a managed menu whose tree holds at least one menu item,
\* ArrowDown on the focused element moves focus to the next menu item in
\* document order, wrapping from the last to the first, and ArrowUp to the
\* previous one, wrapping from the first to the last -- for every tree,
\* items nested inside other items included.
C1_AsStated ==
    (ArrowPressed /\ managed /\ MenuItems # {}) => ArrowMovedAsClaimed

\* C1 amended: the same, for the trees in which no menu item lies inside
\* another menu item and for a focused element that neither contains a menu
\* item nor lies inside one (a focused menu item of such a tree is one).
\* Items nested inside groups are covered.
C1_ArrowKeysFollowDocumentOrder ==
    (ArrowPressed /\ managed /\ MenuItems # {} /\ NoItemInsideItem
        /\ ClearOfItems(ev.target))
    => ArrowMovedAsClaimed

\* ArrowDown on the last menu item, nested in a group, wrapped to the first
\* menu item, itself nested in a group
C1_Witness ==
    /\ ArrowPressed /\ managed /\ NoItemInsideItem /\ ClearOfItems(ev.target)
    /\ ev.key = "ArrowDown"
    /\ ev.target \in MenuItems
    /\ focused \in MenuItems
    /\ focused < ev.target
    /\ parent[focused] # MenuElem
    /\ parent[ev.target] # MenuElem
    /\ ~IsMenuItemRole(parent[focused])

\* C2: when the menu is unmounted the focused element is the element that
\* was document.activeElement when the ContextMenu was constructed, whatever
\* keys were pressed and wherever focus moved while it was mounted.
C2_FocusReturnsOnUnmount ==
    phase \in {"unmounting", "unmounted"} => focused = activeAtConstruction

\* the menu was unmounted while focus was on another element outside it
C2_Witness ==
    /\ ev.type = "unmount"
    /\ ev.before \in OutsideElems
    /\ ev.before # activeAtConstruction
    /\ focused = activeAtConstruction

\* C3: a key press calls onFinished exactly once when the menu is managed
\* and the key is Tab or Escape, or the menu is unmanaged and the key is
\* Escape, and not at all otherwise; in an unmanaged menu a key other than
\* Escape moves no focus and is neither stopped nor default-prevented.
C3_KeysThatFinish ==
    ev.type = "keydown" =>
        /\ ev.finished =
              (IF \/ managed /\ ev.key \in {"Tab", "Escape"}
                  \/ ~managed /\ ev.key = "Escape"
               THEN 1 ELSE 0)
        /\ (~managed /\ ev.key # "Escape") =>
              /\ focused = ev.before
              /\ ~ev.stopped
              /\ ~ev.prevented

\* Tab was pressed in an unmanaged menu
C3_Witness ==
    /\ ev.type = "keydown"
    /\ ~managed
    /\ ev.key = "Tab"
    /\ ev.finished = 0
    /\ focused = ev.target

\* the elements whose role attribute begins with "menuitem", and those
\* carrying a tab-index attribute
RoleBeginsWithMenuitem ==
    { n \in Nodes : attrs[n].role # <<>> /\ Head(attrs[n].role) = "menuitem" }
CarriesTabIndex == { n \in Nodes : attrs[n].tabIndexAttr }

\* C4: when the menu element is attached, focus is on the first element in
\* document order whose role begins with "menuitem"; if there is none, on
\* the first carrying a tab-index attribute; if there is neither, where it
\* was.  When the ref callback runs with no element, focus and the
\* component state stay as they were.
C4_AttachFocusesFirst ==
    /\ ev.type = "attach" =>
          focused = (IF RoleBeginsWithMenuitem # {} THEN Min(RoleBeginsWithMenuitem)
                     ELSE IF CarriesTabIndex # {} THEN Min(CarriesTabIndex)
                     ELSE ev.before)
    /\ ev.type = "detach" =>
          /\ focused = ev.before
          /\ contextMenuElem = ev.elemBefore

\* the menu was attached with no role beginning with "menuitem" in it, and
\* focus went to an element with a tab-index attribute that is not the
\* first element of the menu
C4_Witness ==
    /\ ev.type = "attach"
    /\ RoleBeginsWithMenuitem = {}
    /\ focused \in CarriesTabIndex
    /\ focused # firstElementChild(MenuElem)

\* C5: every search was issued with enabled and ready both true, and
\* whenever the hook is enabled and ready the search issued last carries
\* the current query and the current limit, 20 when none is given.
C5_SearchFollowsState ==
    /\ \A i \in 1..Len(searches) : searches[i].enabled /\ searches[i].ready
    /\ (enabled /\ ready) =>
          /\ searches # <<>>
          /\ searches[Len(searches)].query = query
          /\ searches[Len(searches)].limit =
                (IF limitArg = Undefined THEN 20 ELSE limitArg)

\* a second search was issued for a changed query, with the default limit
C5_Witness ==
    /\ enabled /\ ready
    /\ Len(searches) >= 2
    /\ searches[Len(searches)].query = query
    /\ searches[Len(searches) - 1].query # query
    /\ limitArg = Undefined
    /\ searches[Len(searches)].limit = 20

\* C6: every invocation of createMenu's onFinished first unmounts the menu
\* and then calls the caller's props.onFinished, once and with the
\* invocation's arguments, the menu no longer mounted; with no
\* props.onFinished it only unmounts.
C6_UnmountThenCallerOnFinished ==
    IF props.present /\ props.onFinished
    THEN /\ Len(trace) = 2 * Len(calls)
         /\ \A k \in 1..Len(calls) :
               /\ trace[2 * k - 1].op = "unmountComponentAtNode"
               /\ trace[2 * k].op = "props.onFinished"
               /\ trace[2 * k].args = calls[k]
               /\ ~trace[2 * k].mounted
         /\ calls # <<>> => phase = "unmounted"
    ELSE /\ Len(trace) = Len(calls)
         /\ \A k \in 1..Len(calls) : trace[k].op = "unmountComponentAtNode"
         /\ calls # <<>> => phase = "unmounted"

\* the handle was invoked with two arguments while the menu was mounted, and
\* the caller's onFinished got them after the unmount
C6_Witness ==
    /\ props.present /\ props.onFinished
    /\ Len(calls) >= 1
    /\ calls[1] = <<"a", "b">>
    /\ trace[1].mounted
    /\ trace[2].op = "props.onFinished"
    /\ trace[2].args = <<"a", "b">>
    /\ phase = "unmounted"

====
